---- MODULE Spec2Model ----
(***************************************************************************)
(* DesignFin: the unit-economics calculator.  The model covers the         *)
(* FinancialState held by the App component, the handlers that edit it,    *)
(* the material editor modal with its local copy, and the LOGIC KERNEL     *)
(* (amortisation, material costing, COGS, per-scenario results) together   *)
(* with its useMemo caches.                                                *)
(*                                                                         *)
(* Every value of TypeScript type `number` is an IEEE-754 binary64 value.  *)
(* It is modelled bit-exactly.  A value that is an integer of magnitude    *)
(* below 2^30 (and is not -0) is the record [k |-> "int", v |-> n]; every   *)
(* other finite value is a record [k, s, m, e] with k = "fin", sign s, a   *)
(* 53-bit significand m kept as four 15-bit limbs (least significant       *)
(* first) and the exponent e of the last significand bit, so that the      *)
(* value is (-1)^s * m * 2^e; -0 has m = 0, e = 0, s = 1.  Infinity and    *)
(* NaN are the records with k = "inf" and k = "nan".  Each value has one   *)
(* representation.  Every arithmetic operator rounds to nearest, ties to   *)
(* even, as the JavaScript operators do.                                   *)
(***************************************************************************)
EXTENDS Integers, Sequences, FiniteSets, TLC

(***************************************************************************)
(* Natural numbers of any size, as sequences of limbs                      *)
(***************************************************************************)
LimbBits == 14 + 1
LimbBase == 2^LimbBits
SigBits == 52 + 1

\* Every operator of the arithmetic below that takes arguments is defined by
\* name through the one recursive operator Num, which holds the bodies: X(a, b)
\* is Num("X", <<a, b>>).  The nesting of the operators is then a recursion of
\* Num, and the cost of following an operator into its body, for the model
\* checker, does not grow with the depth of the nesting.
RECURSIVE Num(_, _)

BTrim(a) == Num("BTrim", <<a>>)
BLimb(a, i) == IF i >= 1 /\ i <= Len(a) THEN a[i] ELSE 0

BPad(a, n) == Num("BPad", <<a, n>>)
SmallBitLen(x) == Num("SmallBitLen", <<x>>)
BBitLen(a) == Num("BBitLen", <<a>>)
BCmpFrom(a, b, i) == Num("BCmpFrom", <<a, b, i>>)
BCmp(a, b) == Num("BCmp", <<a, b>>)
BAddFrom(a, b, i, n, carry) == Num("BAddFrom", <<a, b, i, n, carry>>)
BAdd(a, b) == Num("BAdd", <<a, b>>)
BSubFrom(a, b, i, n, borrow) == Num("BSubFrom", <<a, b, i, n, borrow>>)
\* a - b for a >= b
BSub(a, b) == Num("BSub", <<a, b>>)
BMulSmallFrom(a, d, i, carry) == Num("BMulSmallFrom", <<a, d, i, carry>>)
\* a * d for a limb d
BMulSmall(a, d) == Num("BMulSmall", <<a, d>>)
BShlLimbs(a, k) == [i \in 1..k |-> 0] \o a

BMulFrom(a, b, i) == Num("BMulFrom", <<a, b, i>>)
BMul(a, b) == Num("BMul", <<a, b>>)
\* a * 2^n
BShl(a, n) == Num("BShl", <<a, n>>)
\* a \div 2^n
BShr(a, n) == Num("BShr", <<a, n>>)
\* bit i of a, bit 0 the least significant
BBit(a, i) == Num("BBit", <<a, i>>)
\* a % 2^n = 0
BLowZero(a, n) == Num("BLowZero", <<a, n>>)
\* the largest q <= qh with q * v <= r
BFixDigit(r, v, qh) == Num("BFixDigit", <<r, v, qh>>)
\* long division of the limbs u[1..i] (most significant first) by v, with the
\* remainder r of the limbs above i: <<quotient limbs, remainder>>
BDivFrom(u, v, i, r) == Num("BDivFrom", <<u, v, i, r>>)
\* short division of the limbs u[1..i] by the limb d, with the remainder r of
\* the limbs above i: <<quotient limbs, remainder>>
BDivSmallFrom(u, d, i, r) == Num("BDivSmallFrom", <<u, d, i, r>>)
\* every limb of v below the top one is 0
BOneLimb(v) == Num("BOneLimb", <<v>>)
\* <<u \div v, u % v>> for v > 0 whose top limb is at least LimbBase / 2 and
\* Len(u) >= Len(v); short division when v has one limb that is not 0
BDivMod(u, v) == Num("BDivMod", <<u, v>>)
BFromNat(n) == Num("BFromNat", <<n>>)
(***************************************************************************)
(* number: IEEE-754 binary64                                               *)
(***************************************************************************)
SigLimbs == (SigBits + LimbBits - 1) \div LimbBits

ZeroSig == [i \in 1..SigLimbs |-> 0]

FZero(s) == [k |-> "fin", s |-> s, m |-> ZeroSig, e |-> 0]

Infinity == [k |-> "inf", s |-> 0, m |-> ZeroSig, e |-> 0]

NaN == [k |-> "nan", s |-> 0, m |-> ZeroSig, e |-> 0]

IsFinite(x) == x.k = "fin"

IsZero(x) == x.k = "fin" /\ x.m = ZeroSig

\* the binary64 value nearest to (-1)^s * (n + f) * 2^e, where 0 <= f < 1 and
\* f > 0 exactly when sticky; ties go to the even significand
RoundPack(s, n, e, sticky) == Num("RoundPack", <<s, n, e, sticky>>)
\* the binary64 record of the integer n
FromInt(n) == Num("FromInt", <<n>>)
FNeg(x) == [x EXCEPT !.s = 1 - x.s]

\* -1, 0, 1 as |x| is less than, equal to, greater than |y| (finite x, y)
MagCmp(x, y) == Num("MagCmp", <<x, y>>)
\* -1, 0, 1 as x < y, x = y, x > y (finite x, y; -0 = +0)
FCmp(x, y) == Num("FCmp", <<x, y>>)
\* x > y, x < y, x >= y, x <= y, x === y of JavaScript; every comparison with NaN is false
FGt(x, y) == Num("FGt", <<x, y>>)
FLt(x, y) == Num("FLt", <<x, y>>)
FEq(x, y) == Num("FEq", <<x, y>>)
FGe(x, y) == Num("FGe", <<x, y>>)
FLe(x, y) == Num("FLe", <<x, y>>)
\* x + y
FAdd(x, y) == Num("FAdd", <<x, y>>)
\* x - y
FSub(x, y) == Num("FSub", <<x, y>>)
\* x * y
FMul(x, y) == Num("FMul", <<x, y>>)
\* x / y
FDiv(x, y) == Num("FDiv", <<x, y>>)
\* Math.ceil(x)
FCeil(x) == Num("FCeil", <<x>>)
BToNat(a) == Num("BToNat", <<a>>)
IntLimit == 2^30

MulLimit == 2^LimbBits

\* the number with the integer value n, |n| < IntLimit
I(n) == [k |-> "int", v |-> n]

Abs(n) == IF n < 0 THEN 0 - n ELSE n

\* the binary64 record of a number
ToF(x) == Num("ToF", <<x>>)
\* the number of a binary64 record
Canon(f) == Num("Canon", <<f>>)
\* the decimal literal a / b (a and b integers, b a power of ten)
Dec(a, b) == Num("Dec", <<a, b>>)
\* x + y
Add(x, y) == Num("Add", <<x, y>>)
\* x - y
Sub(x, y) == Num("Sub", <<x, y>>)
\* x * y
Mul(x, y) == Num("Mul", <<x, y>>)
\* x / y
Div(x, y) == Num("Div", <<x, y>>)
\* x > y, x < y, x >= y, x <= y, x === y
Gt(x, y) == Num("Gt", <<x, y>>)
Lt(x, y) == Num("Lt", <<x, y>>)
Eq(x, y) == Num("Eq", <<x, y>>)
Ge(x, y) == Num("Ge", <<x, y>>)
Le(x, y) == Num("Le", <<x, y>>)
\* Math.ceil(x)
Ceil(x) == Num("Ceil", <<x>>)
\* Math.max(x, y)
Max(x, y) == Num("Max", <<x, y>>)
\* isNaN(x); x || 0 for a number x
IsNaN(x) == x.k = "nan"

OrZero(x) == Num("OrZero", <<x>>)
\* Math.trunc(x) for a finite x
Trunc(x) == Num("Trunc", <<x>>)
(***************************************************************************)
(* Text typed into an input, and its conversions                           *)
(***************************************************************************)
\* parseFloat(text): the texts are plain decimal numerals; any other text,
\* the empty text included, has no numeric prefix
ParseFloat(text) == Num("ParseFloat", <<text>>)
\* parseInt(text): the digits before the decimal point
ParseInt(text) == Num("ParseInt", <<text>>)

\* the bodies of the operators above; args are the arguments in their order
Num(op, args) ==
    CASE op = "BCmpFrom" ->
        LET a == args[1] b == args[2] i == args[3]
        IN  (IF i = 0 THEN 0
            ELSE IF BLimb(a, i) > BLimb(b, i) THEN 1
            ELSE IF BLimb(a, i) < BLimb(b, i) THEN -1
            ELSE BCmpFrom(a, b, i - 1))
      [] op = "BAddFrom" ->
        LET a == args[1] b == args[2] i == args[3] n == args[4] carry == args[5]
        IN  (IF i > n THEN (IF carry = 0 THEN <<>> ELSE <<carry>>)
            ELSE LET t == BLimb(a, i) + BLimb(b, i) + carry
                 IN  <<t % LimbBase>> \o BAddFrom(a, b, i + 1, n, t \div LimbBase))
      [] op = "BSubFrom" ->
        LET a == args[1] b == args[2] i == args[3] n == args[4] borrow == args[5]
        IN  (IF i > n THEN <<>>
            ELSE LET t == BLimb(a, i) - BLimb(b, i) - borrow
                 IN  IF t < 0 THEN <<t + LimbBase>> \o BSubFrom(a, b, i + 1, n, 1)
                     ELSE <<t>> \o BSubFrom(a, b, i + 1, n, 0))
      [] op = "BMulSmallFrom" ->
        LET a == args[1] d == args[2] i == args[3] carry == args[4]
        IN  (IF i > Len(a) THEN (IF carry = 0 THEN <<>> ELSE <<carry>>)
            ELSE LET t == a[i] * d + carry
                 IN  <<t % LimbBase>> \o BMulSmallFrom(a, d, i + 1, t \div LimbBase))
      [] op = "BTrim" ->
        LET a == args[1]
        IN  (IF a = <<>> THEN <<>>
            ELSE IF a[Len(a)] = 0 THEN BTrim(SubSeq(a, 1, Len(a) - 1))
            ELSE a)
      [] op = "SmallBitLen" ->
        LET x == args[1]
        IN  (IF x = 0 THEN 0 ELSE 1 + SmallBitLen(x \div 2))
      [] op = "BDivSmallFrom" ->
        LET u == args[1] d == args[2] i == args[3] r == args[4]
        IN  (IF i = 0 THEN <<<<>>, r>>
            ELSE LET t    == r * LimbBase + u[i]
                     rest == BDivSmallFrom(u, d, i - 1, t % d)
                 IN  <<rest[1] \o <<t \div d>>, rest[2]>>)
      [] op = "BFixDigit" ->
        LET r == args[1] v == args[2] qh == args[3]
        IN  (IF BCmp(BMulSmall(v, qh), r) <= 0 THEN qh ELSE BFixDigit(r, v, qh - 1))
      [] op = "BDivFrom" ->
        LET u == args[1] v == args[2] i == args[3] r == args[4]
        IN  (IF i = 0 THEN <<<<>>, r>>
            ELSE LET r1   == BTrim(<<u[i]>> \o r)
                     n    == Len(v)
                     top  == BLimb(r1, n + 1) * LimbBase + BLimb(r1, n)
                     est  == top \div v[n]
                     qh   == IF est > LimbBase - 1 THEN LimbBase - 1 ELSE est
                     q    == BFixDigit(r1, v, qh)
                     rest == BDivFrom(u, v, i - 1, BSub(r1, BMulSmall(v, q)))
                 IN  <<rest[1] \o <<q>>, rest[2]>>)
      [] op = "BMulFrom" ->
        LET a == args[1] b == args[2] i == args[3]
        IN  (IF i > Len(b) THEN <<>>
            ELSE BAdd(BShlLimbs(BMulSmall(a, b[i]), i - 1), BMulFrom(a, b, i + 1)))
      [] op = "BPad" ->
        LET a == args[1] n == args[2]
        IN  ([i \in 1..n |-> BLimb(a, i)])
      [] op = "BCmp" ->
        LET a == args[1] b == args[2]
        IN  (BCmpFrom(a, b, IF Len(a) > Len(b) THEN Len(a) ELSE Len(b)))
      [] op = "BAdd" ->
        LET a == args[1] b == args[2]
        IN  (BAddFrom(a, b, 1, IF Len(a) > Len(b) THEN Len(a) ELSE Len(b), 0))
      [] op = "BSub" ->
        LET a == args[1] b == args[2]
        IN  (BTrim(BSubFrom(a, b, 1, Len(a), 0)))
      [] op = "BMulSmall" ->
        LET a == args[1] d == args[2]
        IN  (BMulSmallFrom(a, d, 1, 0))
      [] op = "BShl" ->
        LET a == args[1] n == args[2]
        IN  (BTrim(BShlLimbs(BMulSmall(a, 2^(n % LimbBits)), n \div LimbBits)))
      [] op = "BShr" ->
        LET a == args[1] n == args[2]
        IN  (LET k == n \div LimbBits
                s == n % LimbBits
            IN  IF k >= Len(a) THEN <<>>
                ELSE BTrim([i \in 1..(Len(a) - k) |->
                              (a[i + k] \div 2^s) + (BLimb(a, i + k + 1) % 2^s) * 2^(LimbBits - s)]))
      [] op = "BBit" ->
        LET a == args[1] i == args[2]
        IN  ((BLimb(a, (i \div LimbBits) + 1) \div 2^(i % LimbBits)) % 2)
      [] op = "BLowZero" ->
        LET a == args[1] n == args[2]
        IN  (/\ \A i \in 1..(n \div LimbBits) : BLimb(a, i) = 0
            /\ BLimb(a, (n \div LimbBits) + 1) % 2^(n % LimbBits) = 0)
      [] op = "BBitLen" ->
        LET a == args[1]
        IN  (LET t == BTrim(a)
            IN  IF t = <<>> THEN 0 ELSE (Len(t) - 1) * LimbBits + SmallBitLen(t[Len(t)]))
      [] op = "Add" ->
        LET x == args[1] y == args[2]
        IN  (IF x.k = "int" /\ y.k = "int" /\ Abs(x.v + y.v) < IntLimit THEN I(x.v + y.v)
            ELSE Canon(FAdd(ToF(x), ToF(y))))
      [] op = "Gt" ->
        LET x == args[1] y == args[2]
        IN  (IF x.k = "int" /\ y.k = "int" THEN x.v > y.v ELSE FGt(ToF(x), ToF(y)))
      [] op = "Mul" ->
        LET x == args[1] y == args[2]
        IN  (IF /\ x.k = "int" /\ y.k = "int"
               /\ Abs(x.v) < MulLimit /\ Abs(y.v) < MulLimit
               /\ (x.v * y.v # 0 \/ (x.v >= 0 /\ y.v >= 0))
            THEN I(x.v * y.v)
            ELSE Canon(FMul(ToF(x), ToF(y))))
      [] op = "Div" ->
        LET x == args[1] y == args[2]
        IN  (IF /\ x.k = "int" /\ y.k = "int" /\ y.v # 0
               /\ Abs(x.v) % Abs(y.v) = 0
               /\ (x.v # 0 \/ y.v > 0)
            THEN I((IF (x.v < 0) = (y.v < 0) THEN 1 ELSE -1) * (Abs(x.v) \div Abs(y.v)))
            ELSE Canon(FDiv(ToF(x), ToF(y))))
      [] op = "Sub" ->
        LET x == args[1] y == args[2]
        IN  (IF x.k = "int" /\ y.k = "int" /\ Abs(x.v - y.v) < IntLimit THEN I(x.v - y.v)
            ELSE Canon(FSub(ToF(x), ToF(y))))
      [] op = "Eq" ->
        LET x == args[1] y == args[2]
        IN  (IF x.k = "int" /\ y.k = "int" THEN x.v = y.v ELSE FEq(ToF(x), ToF(y)))
      [] op = "OrZero" ->
        LET x == args[1]
        IN  (IF x.k = "nan" \/ Eq(x, I(0)) THEN I(0) ELSE x)
      [] op = "Max" ->
        LET x == args[1] y == args[2]
        IN  (IF x.k = "nan" \/ y.k = "nan" THEN NaN
            ELSE IF Gt(y, x) THEN y
            ELSE IF Gt(x, y) THEN x
            ELSE IF x.k = "int" THEN x ELSE y)
      [] op = "ToF" ->
        LET x == args[1]
        IN  (IF x.k = "int" THEN FromInt(x.v) ELSE x)
      [] op = "Canon" ->
        LET f == args[1]
        IN  (IF f.k # "fin" THEN f
            ELSE IF f.m = ZeroSig THEN (IF f.s = 0 THEN I(0) ELSE f)
            ELSE IF f.e >= 0 - (SigBits - 1) /\ f.e <= 30 - SigBits /\ BLowZero(f.m, 0 - f.e)
            THEN I((IF f.s = 1 THEN -1 ELSE 1) * BToNat(BShr(f.m, 0 - f.e)))
            ELSE f)
      [] op = "RoundPack" ->
        LET s == args[1] n == args[2] e == args[3] sticky == args[4]
        IN  (LET t == BTrim(n)
                l == BBitLen(t)
            IN  IF l = 0 THEN FZero(s)
                ELSE IF l <= SigBits
                THEN [k |-> "fin", s |-> s, m |-> BPad(BShl(t, SigBits - l), SigLimbs),
                      e |-> e - (SigBits - l)]
                ELSE LET sh == l - SigBits
                         q  == BShr(t, sh)
                         g  == BBit(t, sh - 1) = 1
                         st == sticky \/ ~BLowZero(t, sh - 1)
                         up == g /\ (st \/ BBit(q, 0) = 1)
                         q1 == IF up THEN BAdd(q, <<1>>) ELSE q
                     IN  IF BBitLen(q1) > SigBits
                         THEN [k |-> "fin", s |-> s, m |-> BPad(BShr(q1, 1), SigLimbs),
                               e |-> e + sh + 1]
                         ELSE [k |-> "fin", s |-> s, m |-> BPad(q1, SigLimbs), e |-> e + sh])
      [] op = "FromInt" ->
        LET n == args[1]
        IN  (RoundPack(IF n < 0 THEN 1 ELSE 0, BFromNat(IF n < 0 THEN -n ELSE n), 0, FALSE))
      [] op = "BFromNat" ->
        LET n == args[1]
        IN  (IF n = 0 THEN <<>> ELSE <<n % LimbBase>> \o BFromNat(n \div LimbBase))
      [] op = "BToNat" ->
        LET a == args[1]
        IN  (IF a = <<>> THEN 0 ELSE a[1] + LimbBase * BToNat(Tail(a)))
      [] op = "BMul" ->
        LET a == args[1] b == args[2]
        IN  (BTrim(BMulFrom(a, b, 1)))
      [] op = "BOneLimb" ->
        LET v == args[1]
        IN  (\A i \in 1..(Len(v) - 1) : v[i] = 0)
      [] op = "BDivMod" ->
        LET u == args[1] v == args[2]
        IN  (IF BOneLimb(v)
            THEN LET k == Len(v) - 1
                     d == BDivSmallFrom(SubSeq(u, k + 1, Len(u)), v[Len(v)], Len(u) - k, 0)
                 IN  <<BTrim(d[1]), BTrim(SubSeq(u, 1, k) \o <<d[2]>>)>>
            ELSE LET d == BDivFrom(u, v, Len(u), <<>>)
                 IN  <<BTrim(d[1]), d[2]>>)
      [] op = "MagCmp" ->
        LET x == args[1] y == args[2]
        IN  (IF IsZero(x) THEN (IF IsZero(y) THEN 0 ELSE -1)
            ELSE IF IsZero(y) THEN 1
            ELSE IF x.e > y.e THEN 1
            ELSE IF x.e < y.e THEN -1
            ELSE BCmp(x.m, y.m))
      [] op = "FCmp" ->
        LET x == args[1] y == args[2]
        IN  (IF IsZero(x) /\ IsZero(y) THEN 0
            ELSE IF x.s # y.s THEN (IF IsZero(x) THEN (IF y.s = 1 THEN 1 ELSE -1)
                                    ELSE IF x.s = 1 THEN -1 ELSE 1)
            ELSE IF x.s = 0 THEN MagCmp(x, y) ELSE MagCmp(y, x))
      [] op = "FGt" ->
        LET x == args[1] y == args[2]
        IN  (IF x.k = "nan" \/ y.k = "nan" THEN FALSE
            ELSE IF x.k = "inf" THEN x.s = 0 /\ ~(y.k = "inf" /\ y.s = 0)
            ELSE IF y.k = "inf" THEN y.s = 1
            ELSE FCmp(x, y) = 1)
      [] op = "FLt" ->
        LET x == args[1] y == args[2]
        IN  (FGt(y, x))
      [] op = "FEq" ->
        LET x == args[1] y == args[2]
        IN  (IF x.k = "nan" \/ y.k = "nan" THEN FALSE
            ELSE IF x.k = "inf" \/ y.k = "inf" THEN x.k = y.k /\ x.s = y.s
            ELSE FCmp(x, y) = 0)
      [] op = "FGe" ->
        LET x == args[1] y == args[2]
        IN  (FGt(x, y) \/ FEq(x, y))
      [] op = "FLe" ->
        LET x == args[1] y == args[2]
        IN  (FGe(y, x))
      [] op = "FAdd" ->
        LET x == args[1] y == args[2]
        IN  (IF x.k = "nan" \/ y.k = "nan" THEN NaN
            ELSE IF x.k = "inf" THEN (IF y.k = "inf" /\ y.s # x.s THEN NaN ELSE x)
            ELSE IF y.k = "inf" THEN y
            ELSE IF IsZero(x) /\ IsZero(y) THEN FZero(IF x.s = 1 /\ y.s = 1 THEN 1 ELSE 0)
            ELSE IF IsZero(x) THEN y
            ELSE IF IsZero(y) THEN x
            ELSE LET e == IF x.e < y.e THEN x.e ELSE y.e
                     a == BShl(x.m, x.e - e)
                     b == BShl(y.m, y.e - e)
                     c == BCmp(a, b)
                 IN  IF x.s = y.s THEN RoundPack(x.s, BAdd(a, b), e, FALSE)
                     ELSE IF c = 0 THEN FZero(0)
                     ELSE IF c > 0 THEN RoundPack(x.s, BSub(a, b), e, FALSE)
                     ELSE RoundPack(y.s, BSub(b, a), e, FALSE))
      [] op = "FSub" ->
        LET x == args[1] y == args[2]
        IN  (FAdd(x, FNeg(y)))
      [] op = "FMul" ->
        LET x == args[1] y == args[2]
        IN  (LET s == IF x.s = y.s THEN 0 ELSE 1
            IN  IF x.k = "nan" \/ y.k = "nan" THEN NaN
                ELSE IF x.k = "inf" \/ y.k = "inf"
                THEN (IF IsZero(x) \/ IsZero(y) THEN NaN ELSE [Infinity EXCEPT !.s = s])
                ELSE IF IsZero(x) \/ IsZero(y) THEN FZero(s)
                ELSE RoundPack(s, BMul(x.m, y.m), x.e + y.e, FALSE))
      [] op = "FDiv" ->
        LET x == args[1] y == args[2]
        IN  (LET s == IF x.s = y.s THEN 0 ELSE 1
            IN  IF x.k = "nan" \/ y.k = "nan" THEN NaN
                ELSE IF x.k = "inf" THEN (IF y.k = "inf" THEN NaN ELSE [Infinity EXCEPT !.s = s])
                ELSE IF y.k = "inf" THEN FZero(s)
                ELSE IF IsZero(y) THEN (IF IsZero(x) THEN NaN ELSE [Infinity EXCEPT !.s = s])
                ELSE IF IsZero(x) THEN FZero(s)
                ELSE LET norm == SigLimbs * LimbBits - SigBits
                         u    == BShlLimbs(BPad(BShl(x.m, norm), SigLimbs), SigLimbs)
                         v    == BPad(BShl(y.m, norm), SigLimbs)
                         d    == BDivMod(u, v)
                     IN  RoundPack(s, d[1], x.e - y.e - SigLimbs * LimbBits, BTrim(d[2]) # <<>>))
      [] op = "FCeil" ->
        LET x == args[1]
        IN  (IF ~IsFinite(x) \/ IsZero(x) \/ x.e >= 0 THEN x
            ELSE LET sh   == 0 - x.e
                     q    == BShr(x.m, sh)
                     frac == ~BLowZero(x.m, IF sh > SigBits THEN SigBits ELSE sh)
                     n    == IF x.s = 0 /\ frac THEN BAdd(q, <<1>>) ELSE q
                 IN  RoundPack(x.s, n, 0, FALSE))
      [] op = "Dec" ->
        LET a == args[1] b == args[2]
        IN  (Canon(FDiv(FromInt(a), FromInt(b))))
      [] op = "Lt" ->
        LET x == args[1] y == args[2]
        IN  (Gt(y, x))
      [] op = "Ge" ->
        LET x == args[1] y == args[2]
        IN  (Gt(x, y) \/ Eq(x, y))
      [] op = "Le" ->
        LET x == args[1] y == args[2]
        IN  (Ge(y, x))
      [] op = "Ceil" ->
        LET x == args[1]
        IN  (IF x.k = "int" THEN x ELSE Canon(FCeil(x)))
      [] op = "Trunc" ->
        LET x == args[1]
        IN  (IF x.k = "int" THEN x
            ELSE IF x.s = 1 THEN Canon(FCeil(x))
            ELSE Canon(FNeg(FCeil(FNeg(x)))))
      [] op = "ParseFloat" ->
        LET text == args[1]
        IN  (CASE text = "0"    -> I(0)
              [] text = "1"    -> I(1)
              [] text = "2"    -> I(2)
              [] text = "3"    -> I(3)
              [] text = "5"    -> I(5)
              [] text = "7"    -> I(7)
              [] text = "21"   -> I(21)
              [] text = "25"   -> I(25)
              [] text = "35"   -> I(35)
              [] text = "50"   -> I(50)
              [] text = "85"   -> I(85)
              [] text = "150"  -> I(150)
              [] text = "250"  -> I(250)
              [] text = "1000" -> I(1000)
              [] text = "2500" -> I(2500)
              [] text = "-10"  -> I(-10)
              [] text = "0.7"  -> Dec(7, 10)
              [] text = "2.5"  -> Dec(25, 10)
              [] text = "3.5"  -> Dec(35, 10)
              [] OTHER         -> NaN)
      [] op = "ParseInt" ->
        LET text == args[1]
        IN  (LET f == ParseFloat(text)
            IN  IF IsNaN(f) THEN NaN ELSE Trunc(f))

(***************************************************************************)
(* constants.ts                                                            *)
(***************************************************************************)
DEFAULT_SCENARIOS ==
    << [id |-> "direct", name |-> "Direct Sale",
        discountPercent |-> I(0), commissionPercent |-> I(0),
        description |-> "Direct to consumer (Website)"],
       [id |-> "card", name |-> "Card Sale",
        discountPercent |-> Dec(35, 1000), commissionPercent |-> I(0),
        description |-> "Processing fees included"],
       [id |-> "specifier", name |-> "Architect/Specifier",
        discountPercent |-> Dec(15, 100), commissionPercent |-> I(0),
        description |-> "Trade discount"],
       [id |-> "retail", name |-> "Retail Store",
        discountPercent |-> Dec(50, 100), commissionPercent |-> I(0),
        description |-> "Standard wholesale"],
       [id |-> "distributor", name |-> "Distributor",
        discountPercent |-> Dec(60, 100), commissionPercent |-> I(0),
        description |-> "Volume partner"],
       [id |-> "agent", name |-> "Sales Agent",
        discountPercent |-> Dec(50, 100), commissionPercent |-> Dec(25, 1000),
        description |-> "Wholesale + Commission"] >>

\* An id is a string.  The ids of the default snapshot are "1", "2", "3"; an id
\* made by a handler is a prefix (the new row number, or none) followed by
\* the digits of Date.now().  The model keeps the two parts: pre = 0 is no
\* prefix, t = 0 is no time stamp.
Id(pre, t) == [pre |-> pre, t |-> t]

INITIAL_STATE ==
    [ devCosts |->
        << [id |-> Id(1, 0), name |-> "Industrial Design", amount |-> I(5000)],
           [id |-> Id(2, 0), name |-> "Prototyping", amount |-> I(1200)],
           [id |-> Id(3, 0), name |-> "Tooling", amount |-> I(3500)] >>,
      amortizationQty |-> I(1000),
      batchSize |-> I(50),
      wasteCount |-> I(2),
      materials |->
        << [id |-> Id(1, 0), name |-> "Aluminum 6061", cost |-> I(250), qtyPerUnit |-> I(0),
            bufferUnits |-> I(0), unitCost |-> I(0), notes |-> "Manual entry"],
           [id |-> Id(2, 0), name |-> "Packaging", cost |-> I(50), qtyPerUnit |-> I(0),
            bufferUnits |-> I(0), unitCost |-> I(0), notes |-> "Manual entry"],
           [id |-> Id(3, 0), name |-> "Powder Coating", cost |-> I(150), qtyPerUnit |-> I(0),
            bufferUnits |-> I(0), unitCost |-> I(0), notes |-> "Manual entry"] >>,
      publicPrice |-> I(85),
      fixedMonthlyExpenses |-> I(2500),
      designerRoyaltyPercent |-> Dec(5, 100),
      customScenarios |->
        [i \in DOMAIN DEFAULT_SCENARIOS |->
           [id |-> DEFAULT_SCENARIOS[i].id,
            discountPercent |-> DEFAULT_SCENARIOS[i].discountPercent]] ]

(***************************************************************************)
(* Array helpers                                                           *)
(***************************************************************************)
\* array.map(f)
Map(seq, f(_)) == [i \in DOMAIN seq |-> f(seq[i])]

\* array.filter(p)
Filter(seq, p(_)) == SelectSeq(seq, p)

\* the index of the first element with p, 0 when there is none: array.find(p)
FindIndex(seq, p(_)) ==
    IF \E i \in DOMAIN seq : p(seq[i])
    THEN CHOOSE i \in DOMAIN seq : p(seq[i]) /\ \A j \in 1..(i - 1) : ~p(seq[j])
    ELSE 0

(***************************************************************************)
(* LOGIC KERNEL                                                            *)
(***************************************************************************)
\* state.devCosts.reduce((acc, item) => acc + item.amount, 0)
RECURSIVE ReduceAmount(_, _)
ReduceAmount(items, acc) ==
    IF items = <<>> THEN acc
    ELSE ReduceAmount(Tail(items), Add(acc, Head(items).amount))

TotalDevCostOf(devCosts) == ReduceAmount(devCosts, I(0))

AmortPerUnitOf(totalDev, amortizationQty) ==
    IF Gt(amortizationQty, I(0)) THEN Div(totalDev, amortizationQty) ELSE I(0)

\* state.materials.reduce((acc, item) => acc + item.cost, 0)
RECURSIVE ReduceCost(_, _)
ReduceCost(items, acc) ==
    IF items = <<>> THEN acc
    ELSE ReduceCost(Tail(items), Add(acc, Head(items).cost))

TotalBatchMaterialCostOf(materials) == ReduceCost(materials, I(0))

\* EffectiveUnitsOf counting the wasted units as sellable
EffectiveUnitsOf_NoWaste(batchSize, wasteCount) == Max(I(0), batchSize)

EffectiveUnitsOf(batchSize, wasteCount) == Max(I(0), Sub(batchSize, wasteCount))

\* MaterialCostPerUnitOf without the test of the effective units
MaterialCostPerUnitOf_NoGuard(totalMaterial, effUnits) == Div(totalMaterial, effUnits)

\* MaterialCostPerUnitOf rounded up to whole currency units
MaterialCostPerUnitOf_Rounded(totalMaterial, effUnits) ==
    IF Gt(effUnits, I(0)) THEN Ceil(Div(totalMaterial, effUnits)) ELSE I(0)

MaterialCostPerUnitOf(totalMaterial, effUnits) ==
    IF Gt(effUnits, I(0)) THEN Div(totalMaterial, effUnits) ELSE I(0)

CogsOf(matPerUnit, amort) == Add(matPerUnit, amort)

\* CurrentDiscountOf without the override
CurrentDiscountOf_Static(defaultScenario, customScenarios) ==
    defaultScenario.discountPercent

\* override ? override.discountPercent : defaultScenario.discountPercent
CurrentDiscountOf(defaultScenario, customScenarios) ==
    LET ov == FindIndex(customScenarios, LAMBDA sc : sc.id = defaultScenario.id)
    IN  IF ov # 0 THEN customScenarios[ov].discountPercent
        ELSE defaultScenario.discountPercent

\* BreakEvenUnitsOf without the test of the margin
BreakEvenUnitsOf_NoGuard(fixedMonthlyExpenses, grossMargin) ==
    Ceil(Div(fixedMonthlyExpenses, grossMargin))

\* BEP: Fixed / Margin per unit
BreakEvenUnitsOf(fixedMonthlyExpenses, grossMargin) ==
    IF Gt(grossMargin, I(0))
    THEN Ceil(Div(fixedMonthlyExpenses, grossMargin))
    ELSE Infinity

\* RoiOf without the test of the cost of goods
RoiOf_NoGuard(profit, cogs) == Mul(Div(profit, cogs), I(100))

\* COGS > 0 ? (profit / COGS) * 100 : 0
RoiOf(profit, cogs) ==
    IF Gt(cogs, I(0)) THEN Mul(Div(profit, cogs), I(100)) ELSE I(0)

\* the callback of DEFAULT_SCENARIOS.map; env holds what the callback reads:
\* publicPrice, designerRoyaltyPercent, fixedMonthlyExpenses, COGS, customScenarios
ScenarioResultOf(defaultScenario, env) ==
    LET currentDiscount  == CurrentDiscountOf(defaultScenario, env.customScenarios)
        netRevenue       == Mul(env.publicPrice, Sub(I(1), currentDiscount))
        royaltyAmount    == Mul(netRevenue, env.designerRoyaltyPercent)
        commissionAmount == Mul(netRevenue, defaultScenario.commissionPercent)
        grossMargin      == Sub(Sub(Sub(netRevenue, env.COGS), royaltyAmount), commissionAmount)
        profit           == grossMargin
        breakEvenUnits   == BreakEvenUnitsOf(env.fixedMonthlyExpenses, grossMargin)
    IN  [ id |-> defaultScenario.id,
          name |-> defaultScenario.name,
          commissionPercent |-> defaultScenario.commissionPercent,
          description |-> defaultScenario.description,
          discountPercent |-> currentDiscount,
          netRevenue |-> netRevenue,
          grossMargin |-> grossMargin,
          profit |-> profit,
          breakEvenUnits |-> breakEvenUnits,
          isProfitable |-> Gt(profit, I(0)),
          roi |-> RoiOf(profit, env.COGS) ]

\* ScenariosOf in the opposite order
ScenariosOf_Reversed(env) ==
    [i \in DOMAIN DEFAULT_SCENARIOS |->
        ScenarioResultOf(DEFAULT_SCENARIOS[Len(DEFAULT_SCENARIOS) + 1 - i], env)]

ScenariosOf(env) ==
    [i \in DOMAIN DEFAULT_SCENARIOS |-> ScenarioResultOf(DEFAULT_SCENARIOS[i], env)]

(***************************************************************************)
(* Bounds of the model                                                     *)
(***************************************************************************)
\* user events in one session
MaxSteps == 5
\* rows made by the Add buttons in one session
MaxNow == 1
\* user events in one session of the whole application
MaxEdits == 2
\* user events in one session that starts with a calculated row
MaxOverwriteSteps == 4

(***************************************************************************)
(* State                                                                   *)
(***************************************************************************)
VARIABLES
    state,                \* App: useState<FinancialState>
    isMaterialModalOpen,  \* App: useState(false)
    localMaterials,       \* MaterialManagerModal: useState<MaterialItem[]>([])
    initialMaterials,     \* state.materials is the array of INITIAL_STATE (Object.is)
    memo,                 \* App: the useMemo caches of the LOGIC KERNEL
    now,                  \* Date.now(), counted in rows made so far
    budget                \* user events left in the session

vars == <<state, isMaterialModalOpen, localMaterials, initialMaterials, memo, now, budget>>

(***************************************************************************)
(* useMemo                                                                 *)
(*                                                                         *)
(* A cache keeps the dependency array of the render that last ran the      *)
(* callback, with the callback's result (val).  The scenarios cache keeps  *)
(* what its callback read (env) in place of the result: the result is      *)
(* ScenariosOf(env), computed where it is read.  Dependencies are compared *)
(* with Object.is: on numbers that is equality of the representation (NaN  *)
(* equals NaN, 0 differs from -0); the arrays of the state are replaced,   *)
(* never changed in place, so arrays are compared by content.              *)
(***************************************************************************)
NoMemo ==
    [ totalDevCost           |-> [deps |-> <<>>, val |-> NaN],
      amortPerUnit           |-> [deps |-> <<>>, val |-> NaN],
      totalBatchMaterialCost |-> [deps |-> <<>>, val |-> NaN],
      scenarios              |-> [deps |-> <<>>, env |-> <<>>] ]

UseMemo(cache, deps, val) ==
    IF cache.deps = deps THEN cache ELSE [deps |-> deps, val |-> val]

TotalDevCostDeps(st) == <<st.devCosts>>
AmortPerUnitDeps(st, totalDev) == <<totalDev, st.amortizationQty>>
TotalBatchMaterialCostDeps(st) == <<st.materials>>
\* the dependency array of scenarios without COGS
ScenariosDeps_NoCogs(st, cogs) ==
    <<st.publicPrice, st.designerRoyaltyPercent, st.fixedMonthlyExpenses, st.customScenarios>>

ScenariosDeps(st, cogs) ==
    <<st.publicPrice, st.designerRoyaltyPercent, st.fixedMonthlyExpenses, cogs,
      st.customScenarios>>

\* what the scenarios callback reads from its closure
ScenariosEnv(st, cogs) ==
    [ publicPrice            |-> st.publicPrice,
      designerRoyaltyPercent |-> st.designerRoyaltyPercent,
      fixedMonthlyExpenses   |-> st.fixedMonthlyExpenses,
      COGS                   |-> cogs,
      customScenarios        |-> st.customScenarios ]

\* useMemo of scenarios
UseScenarios(cache, deps, env) ==
    IF cache.deps = deps THEN cache ELSE [deps |-> deps, env |-> env]

\* the body of App from COGS on, given the three caches before it
RenderScenarios(st, m, tdc, apu, tbm, cogs) ==
    [ totalDevCost           |-> tdc,
      amortPerUnit           |-> apu,
      totalBatchMaterialCost |-> tbm,
      scenarios              |-> UseScenarios(m.scenarios, ScenariosDeps(st, cogs),
                                              ScenariosEnv(st, cogs)) ]

\* the body of App from effectiveUnits on
RenderCogs(st, m, tdc, apu, tbm) ==
    RenderScenarios(st, m, tdc, apu, tbm,
                    CogsOf(MaterialCostPerUnitOf(tbm.val,
                                                 EffectiveUnitsOf(st.batchSize, st.wasteCount)),
                           apu.val))

\* the body of App from amortPerUnit on
RenderAmort(st, m, tdc) ==
    RenderCogs(st, m, tdc,
               UseMemo(m.amortPerUnit, AmortPerUnitDeps(st, tdc.val),
                       AmortPerUnitOf(tdc.val, st.amortizationQty)),
               UseMemo(m.totalBatchMaterialCost, TotalBatchMaterialCostDeps(st),
                       TotalBatchMaterialCostOf(st.materials)))

\* the body of App down to the end of the LOGIC KERNEL, for the state st and
\* the caches m of the previous render
Render(st, m) ==
    RenderAmort(st, m,
                UseMemo(m.totalDevCost, TotalDevCostDeps(st), TotalDevCostOf(st.devCosts)))

\* what the last render of App computed
totalDevCost == memo.totalDevCost.val
amortPerUnit == memo.amortPerUnit.val
totalBatchMaterialCost == memo.totalBatchMaterialCost.val
effectiveUnits == EffectiveUnitsOf(state.batchSize, state.wasteCount)
materialCostPerUnit == MaterialCostPerUnitOf(totalBatchMaterialCost, effectiveUnits)
COGS == CogsOf(materialCostPerUnit, amortPerUnit)
scenarios == ScenariosOf(memo.scenarios.env)
scenario(i) == ScenarioResultOf(DEFAULT_SCENARIOS[i], memo.scenarios.env)

\* the figures ProductionEfficiencyCard computes from its props
ProductionEfficiencyCard(batchSize, wasteCount, totalMaterial, amortizationPerUnit) ==
    LET yieldRate          == IF Gt(batchSize, I(0))
                              THEN Div(Sub(batchSize, wasteCount), batchSize)
                              ELSE I(0)
        cardUnits          == Sub(batchSize, wasteCount)
        currentUnitMatCost == IF Gt(cardUnits, I(0))
                              THEN Div(totalMaterial, cardUnits)
                              ELSE I(0)
    IN  [ yieldRate            |-> yieldRate,
          effectiveUnits       |-> cardUnits,
          currentUnitMatCost   |-> currentUnitMatCost,
          currentTotalUnitCost |-> Add(currentUnitMatCost, amortizationPerUnit),
          costIncreaseFactor   |-> IF Gt(yieldRate, I(0)) THEN Div(I(1), yieldRate)
                                   ELSE I(0) ]

\* the card as App renders it
card ==
    ProductionEfficiencyCard(state.batchSize, state.wasteCount,
                             totalBatchMaterialCost, amortPerUnit)

Rendered == memo.totalDevCost.deps # <<>>

(***************************************************************************)
(* The effect of MaterialManagerModal, which every render of App can run   *)
(***************************************************************************)
\* JSON.parse(JSON.stringify(x)) of a number: NaN and the infinities come
\* back as null, -0 as 0
Null == [k |-> "null"]
JsonNumber(x) ==
    IF x.k = "nan" \/ x.k = "inf" THEN Null
    ELSE IF x.k = "fin" /\ x.m = ZeroSig THEN I(0)
    ELSE x

JsonCopy(materials) ==
    Map(materials,
        LAMBDA m : [ id |-> m.id, name |-> m.name, cost |-> JsonNumber(m.cost),
                     qtyPerUnit |-> JsonNumber(m.qtyPerUnit),
                     bufferUnits |-> JsonNumber(m.bufferUnits),
                     unitCost |-> JsonNumber(m.unitCost), notes |-> m.notes ])

\* the effect of the modal, run after a render in which isOpen or materials
\* changed: useEffect(() => { if (isOpen) setLocalMaterials(copy) }, [isOpen, materials])
SyncOnOpen(open, materials) ==
    localMaterials' = IF open THEN JsonCopy(materials) ELSE localMaterials

\* a render after which state.materials is an array the handler made: the
\* effect runs, also when the rows are the same
NewMaterials(materials) ==
    /\ initialMaterials' = FALSE
    /\ SyncOnOpen(isMaterialModalOpen, materials)

\* a render after which state.materials is the array it was: no effect
SameMaterials == UNCHANGED <<localMaterials, initialMaterials>>

(***************************************************************************)
(* Handlers of App                                                         *)
(***************************************************************************)
Tick == budget > 0 /\ budget' = budget - 1

\* setState(next), and the render that follows
setState(next) ==
    /\ state' = next
    /\ memo' = Render(next, memo)

\* updateState(key, value)
updateState(key, value) == setState([state EXCEPT ![key] = value])

Ids(items) == {items[i].id : i \in DOMAIN items}
ItemOf(items, id) == items[FindIndex(items, LAMBDA it : it.id = id)]

\* items.map(item => item.id === id ? { ...item, [field]: value } : item)
SetField(items, id, field, value) ==
    Map(items, LAMBDA item : IF item.id = id THEN [item EXCEPT ![field] = value] ELSE item)

handleDevCostChange(id, field, value) ==
    /\ updateState("devCosts", SetField(state.devCosts, id, field, value))
    /\ SameMaterials /\ UNCHANGED <<isMaterialModalOpen, now>>

addDevCost ==
    /\ now < MaxNow
    /\ now' = now + 1
    /\ updateState("devCosts",
                   Append(state.devCosts,
                          [id |-> Id(Len(state.devCosts) + 1, now'),
                           name |-> "New Expense", amount |-> I(0)]))
    /\ SameMaterials /\ UNCHANGED isMaterialModalOpen

removeDevCost(id) ==
    /\ updateState("devCosts", Filter(state.devCosts, LAMBDA i : i.id # id))
    /\ SameMaterials /\ UNCHANGED <<isMaterialModalOpen, now>>

\* recalculateMaterials reading the batch size of the state, not its argument
recalculateMaterials_OldBatch(currentMaterials, newBatchSize) ==
    Map(currentMaterials,
        LAMBDA m :
            IF Gt(m.unitCost, I(0)) \/ Gt(m.qtyPerUnit, I(0))
            THEN [m EXCEPT !.cost = Mul(Add(Mul(m.qtyPerUnit, state.batchSize),
                                                OrZero(m.bufferUnits)),
                                            m.unitCost)]
            ELSE m)

\* recalculateMaterials without the test of the mode
recalculateMaterials_All(currentMaterials, newBatchSize) ==
    Map(currentMaterials,
        LAMBDA m : [m EXCEPT !.cost = Mul(Add(Mul(m.qtyPerUnit, newBatchSize),
                                                  OrZero(m.bufferUnits)),
                                              m.unitCost)])

\* recalculateMaterials adding the new cost to the one the row already has
recalculateMaterials_Accumulate(currentMaterials, newBatchSize) ==
    Map(currentMaterials,
        LAMBDA m :
            IF Gt(m.unitCost, I(0)) \/ Gt(m.qtyPerUnit, I(0))
            THEN [m EXCEPT !.cost = Add(m.cost,
                                        Mul(Add(Mul(m.qtyPerUnit, newBatchSize),
                                                OrZero(m.bufferUnits)),
                                            m.unitCost))]
            ELSE m)

\* recalculateMaterials leaving alone a cost that is not the one the formula
\* gives at the current batch size
recalculateMaterials_KeepEdited(currentMaterials, newBatchSize) ==
    Map(currentMaterials,
        LAMBDA m :
            IF /\ Gt(m.unitCost, I(0)) \/ Gt(m.qtyPerUnit, I(0))
               /\ m.cost = Mul(Add(Mul(m.qtyPerUnit, state.batchSize),
                                   OrZero(m.bufferUnits)),
                               m.unitCost)
            THEN [m EXCEPT !.cost = Mul(Add(Mul(m.qtyPerUnit, newBatchSize),
                                                OrZero(m.bufferUnits)),
                                            m.unitCost)]
            ELSE m)

recalculateMaterials(currentMaterials, newBatchSize) ==
    Map(currentMaterials,
        LAMBDA m :
            IF Gt(m.unitCost, I(0)) \/ Gt(m.qtyPerUnit, I(0))
            THEN [m EXCEPT !.cost = Mul(Add(Mul(m.qtyPerUnit, newBatchSize),
                                                OrZero(m.bufferUnits)),
                                            m.unitCost)]
            ELSE m)

\* updateBatchSize pulling the waste below the new batch size
updateBatchSize_ClampWaste(newSize) ==
    /\ setState([state EXCEPT !.batchSize = newSize,
                              !.materials = recalculateMaterials(state.materials, newSize),
                              !.wasteCount = IF Lt(state.wasteCount, newSize)
                                             THEN state.wasteCount
                                             ELSE Max(I(0), Sub(newSize, I(1)))])
    /\ NewMaterials(state'.materials) /\ UNCHANGED <<isMaterialModalOpen, now>>

updateBatchSize(newSize) ==
    /\ setState([state EXCEPT !.batchSize = newSize,
                              !.materials = recalculateMaterials(state.materials, newSize)])
    /\ NewMaterials(state'.materials) /\ UNCHANGED <<isMaterialModalOpen, now>>

handleMaterialChange(id, field, value) ==
    /\ updateState("materials", SetField(state.materials, id, field, value))
    /\ NewMaterials(state'.materials) /\ UNCHANGED <<isMaterialModalOpen, now>>

addMaterial ==
    /\ now < MaxNow
    /\ now' = now + 1
    /\ updateState("materials",
                   Append(state.materials,
                          [id |-> Id(Len(state.materials) + 1, now'),
                           name |-> "New Material", cost |-> I(0), qtyPerUnit |-> I(0),
                           bufferUnits |-> I(0), unitCost |-> I(0), notes |-> ""]))
    /\ NewMaterials(state'.materials) /\ UNCHANGED isMaterialModalOpen

removeMaterial(id) ==
    /\ updateState("materials", Filter(state.materials, LAMBDA i : i.id # id))
    /\ NewMaterials(state'.materials) /\ UNCHANGED <<isMaterialModalOpen, now>>

\* isNaN(floatVal) ? 0 : floatVal / 100
NewPercentOf(floatVal) ==
    IF IsNaN(floatVal) THEN I(0) ELSE Div(floatVal, I(100))

\* NewScenariosOf putting back the static discount of the scenario when the
\* text is not a number
NewScenariosOf_Default(currentScenarios, id, value) ==
    Map(currentScenarios,
        LAMBDA s : IF s.id = id
                   THEN [s EXCEPT !.discountPercent =
                            IF IsNaN(ParseFloat(value))
                            THEN DEFAULT_SCENARIOS[FindIndex(DEFAULT_SCENARIOS,
                                                             LAMBDA d : d.id = id)]
                                     .discountPercent
                            ELSE Div(ParseFloat(value), I(100))]
                   ELSE s)

\* NewScenariosOf adding an entry for the id in place of replacing its entry
NewScenariosOf_Append(currentScenarios, id, value) ==
    Append(currentScenarios, [id |-> id, discountPercent |-> NewPercentOf(ParseFloat(value))])

\* currentScenarios.map(s => s.id === id ? { ...s, discountPercent: newPercent } : s)
NewScenariosOf(currentScenarios, id, value) ==
    Map(currentScenarios,
        LAMBDA s : IF s.id = id
                   THEN [s EXCEPT !.discountPercent = NewPercentOf(ParseFloat(value))]
                   ELSE s)

\* state.customScenarios is an array in every state, so the fallback of
\* currentScenarios to the static scenarios is never taken
handleScenarioDiscountChange(id, value) ==
    /\ updateState("customScenarios", NewScenariosOf(state.customScenarios, id, value))
    /\ SameMaterials /\ UNCHANGED <<isMaterialModalOpen, now>>

\* ClearedScenarios with the static discounts
ClearedScenarios_Static ==
    [i \in DOMAIN DEFAULT_SCENARIOS |->
       [id |-> DEFAULT_SCENARIOS[i].id,
        discountPercent |-> DEFAULT_SCENARIOS[i].discountPercent]]

\* DEFAULT_SCENARIOS.map(s => ({ id: s.id, discountPercent: 0 }))
ClearedScenarios ==
    [i \in DOMAIN DEFAULT_SCENARIOS |->
       [id |-> DEFAULT_SCENARIOS[i].id, discountPercent |-> I(0)]]

handleClearAll ==
    /\ setState([ devCosts |-> <<>>,
                  amortizationQty |-> I(0),
                  batchSize |-> I(0),
                  wasteCount |-> I(0),
                  materials |-> <<>>,
                  publicPrice |-> I(0),
                  fixedMonthlyExpenses |-> I(0),
                  designerRoyaltyPercent |-> I(0),
                  customScenarios |-> ClearedScenarios ])
    /\ NewMaterials(state'.materials) /\ UNCHANGED <<isMaterialModalOpen, now>>

\* a Reset that puts back everything but the material rows
handleResetDefaults_KeepMaterials ==
    /\ setState([INITIAL_STATE EXCEPT !.materials = state.materials])
    /\ SameMaterials /\ UNCHANGED <<isMaterialModalOpen, now>>

handleResetDefaults ==
    /\ setState(INITIAL_STATE)
    /\ initialMaterials' = TRUE
    /\ IF initialMaterials
       THEN UNCHANGED localMaterials
       ELSE SyncOnOpen(isMaterialModalOpen, INITIAL_STATE.materials)
    /\ UNCHANGED <<isMaterialModalOpen, now>>

setIsMaterialModalOpen(open) ==
    /\ isMaterialModalOpen' = open
    /\ memo' = Render(state, memo)
    /\ UNCHANGED <<state, now>>

(***************************************************************************)
(* MaterialManagerModal                                                    *)
(***************************************************************************)
DetailFields == {"qtyPerUnit", "bufferUnits", "unitCost"}

\* UpdatedRow computing the cost from the values the row had before the edit
UpdatedRow_Stale(item, id, field, value, batchSize) ==
    IF item.id # id THEN item
    ELSE LET updatedItem == [item EXCEPT ![field] = value]
         IN  IF field \in DetailFields
             THEN [updatedItem EXCEPT
                      !.cost = Mul(Add(Mul(item.qtyPerUnit, batchSize), item.bufferUnits),
                                   item.unitCost)]
             ELSE updatedItem

\* the callback of prev.map in updateRow, with the batchSize prop
UpdatedRow(item, id, field, value, batchSize) ==
    IF item.id # id THEN item
    ELSE LET updatedItem == [item EXCEPT ![field] = value]
         IN  IF field \in DetailFields
             THEN LET qty   == IF field = "qtyPerUnit" THEN value ELSE item.qtyPerUnit
                      buff  == IF field = "bufferUnits" THEN value ELSE item.bufferUnits
                      uCost == IF field = "unitCost" THEN value ELSE item.unitCost
                  IN  [updatedItem EXCEPT !.cost = Mul(Add(Mul(qty, batchSize), buff), uCost)]
             ELSE updatedItem

\* updateRow on rows shared with the state: the edit shows in state.materials
updateRow_Shared(id, field, value) ==
    /\ localMaterials' =
           Map(localMaterials, LAMBDA item : UpdatedRow(item, id, field, value, state.batchSize))
    /\ setState([state EXCEPT !.materials = localMaterials'])
    /\ UNCHANGED <<isMaterialModalOpen, initialMaterials, now>>

updateRow(id, field, value) ==
    /\ localMaterials' =
           Map(localMaterials, LAMBDA item : UpdatedRow(item, id, field, value, state.batchSize))
    /\ UNCHANGED <<state, isMaterialModalOpen, initialMaterials, memo, now>>

addRow ==
    /\ now < MaxNow
    /\ now' = now + 1
    /\ localMaterials' =
           Append(localMaterials,
                  [id |-> Id(0, now'), name |-> "", qtyPerUnit |-> I(0), bufferUnits |-> I(0),
                   unitCost |-> I(0), cost |-> I(0), notes |-> ""])
    /\ UNCHANGED <<state, isMaterialModalOpen, initialMaterials, memo>>

removeRow(id) ==
    /\ localMaterials' = Filter(localMaterials, LAMBDA m : m.id # id)
    /\ UNCHANGED <<state, isMaterialModalOpen, initialMaterials, memo, now>>

\* onSave(localMaterials); onClose()
handleSave ==
    /\ updateState("materials", localMaterials)
    /\ isMaterialModalOpen' = FALSE
    /\ initialMaterials' = FALSE
    /\ SyncOnOpen(FALSE, localMaterials)
    /\ UNCHANGED now

(***************************************************************************)
(* User events: an input element, what can be typed into it, its handler   *)
(***************************************************************************)
DevNameTexts == {"Molds"}
DevAmountTexts == {"", "1000"}
AmortizationTexts == {"", "3", "1000"}
BatchTexts == {"", "2"}
MaterialNameTexts == {"Steel"}
MaterialCostTexts == {"7"}
QtyTexts == {"", "2"}
BufferTexts == {"5"}
UnitCostTexts == {"", "5"}
NotesTexts == {"specs"}
PriceTexts == {"", "0.7", "85"}
FixedTexts == {"", "21", "2500"}
RoyaltyTexts == {"", "5", "150"}
DiscountTexts == {"abc", "35", "150", "-10"}
WasteChoices == {0, 1, 2, 49}

\* the modal covers the page (fixed inset-0 z-50) and takes the mouse, but
\* the page under it stays in the tab order: the inputs and buttons of App
\* are used with the keyboard while the editor is open
OnPage == Tick
InModal == isMaterialModalOpen /\ Tick

DevNameInput ==
    /\ OnPage
    /\ \E id \in Ids(state.devCosts), text \in DevNameTexts :
          handleDevCostChange(id, "name", text)

DevAmountInput ==
    /\ OnPage
    /\ \E id \in Ids(state.devCosts), text \in DevAmountTexts :
          handleDevCostChange(id, "amount", OrZero(ParseFloat(text)))

AddDevCostClick == OnPage /\ addDevCost

RemoveDevCostClick == OnPage /\ \E id \in Ids(state.devCosts) : removeDevCost(id)

AmortizationInput ==
    /\ OnPage
    /\ \E text \in AmortizationTexts :
          updateState("amortizationQty", OrZero(ParseInt(text)))
    /\ SameMaterials /\ UNCHANGED <<isMaterialModalOpen, now>>

BatchSizeInput ==
    /\ OnPage
    /\ \E text \in BatchTexts : updateBatchSize(OrZero(ParseInt(text)))

MaterialNameInput ==
    /\ OnPage
    /\ \E id \in Ids(state.materials), text \in MaterialNameTexts :
          handleMaterialChange(id, "name", text)

\* the cost input without its readOnly attribute
ReadOnly_Never(mat) == FALSE

\* readOnly={(mat.qtyPerUnit > 0 || mat.unitCost > 0)}
ReadOnly(mat) == Gt(mat.qtyPerUnit, I(0)) \/ Gt(mat.unitCost, I(0))

MaterialCostInput ==
    /\ OnPage
    /\ \E id \in Ids(state.materials), text \in MaterialCostTexts :
          /\ ~ReadOnly(ItemOf(state.materials, id))
          /\ handleMaterialChange(id, "cost", OrZero(ParseFloat(text)))

AddMaterialClick == OnPage /\ addMaterial

RemoveMaterialClick == OnPage /\ \E id \in Ids(state.materials) : removeMaterial(id)

DetailedInputClick ==
    /\ OnPage
    /\ setIsMaterialModalOpen(TRUE)
    /\ IF isMaterialModalOpen
       THEN UNCHANGED localMaterials
       ELSE SyncOnOpen(TRUE, state.materials)
    /\ UNCHANGED <<initialMaterials, now>>

PriceInput ==
    /\ OnPage
    /\ \E text \in PriceTexts : updateState("publicPrice", OrZero(ParseFloat(text)))
    /\ SameMaterials /\ UNCHANGED <<isMaterialModalOpen, now>>

FixedExpensesInput ==
    /\ OnPage
    /\ \E text \in FixedTexts :
          updateState("fixedMonthlyExpenses", OrZero(ParseFloat(text)))
    /\ SameMaterials /\ UNCHANGED <<isMaterialModalOpen, now>>

RoyaltyInput ==
    /\ OnPage
    /\ \E text \in RoyaltyTexts :
          updateState("designerRoyaltyPercent", Div(OrZero(ParseFloat(text)), I(100)))
    /\ SameMaterials /\ UNCHANGED <<isMaterialModalOpen, now>>

DiscountInput ==
    /\ OnPage
    /\ \E i \in DOMAIN DEFAULT_SCENARIOS, text \in DiscountTexts :
          handleScenarioDiscountChange(DEFAULT_SCENARIOS[i].id, text)

\* the slider of the efficiency card: min 0, max maxWaste, step 1
\* maxWaste letting the whole batch be wasted
maxWaste_WholeBatch == Max(I(0), state.batchSize)

maxWaste == Max(I(0), Sub(state.batchSize, I(1)))

WasteSlider ==
    /\ OnPage
    /\ \E w \in WasteChoices :
          /\ Le(I(w), maxWaste)
          /\ updateState("wasteCount", I(w))
    /\ SameMaterials /\ UNCHANGED <<isMaterialModalOpen, now>>

ClearClick == OnPage /\ handleClearAll

ResetClick == OnPage /\ handleResetDefaults

RowTextInput ==
    /\ InModal
    /\ \E id \in Ids(localMaterials) :
          \/ \E text \in MaterialNameTexts : updateRow(id, "name", text)
          \/ \E text \in NotesTexts : updateRow(id, "notes", text)

RowDetailInput ==
    /\ InModal
    /\ \E id \in Ids(localMaterials) :
          \/ \E text \in QtyTexts : updateRow(id, "qtyPerUnit", OrZero(ParseFloat(text)))
          \/ \E text \in BufferTexts : updateRow(id, "bufferUnits", OrZero(ParseFloat(text)))
          \/ \E text \in UnitCostTexts : updateRow(id, "unitCost", OrZero(ParseFloat(text)))

AddRowClick == InModal /\ addRow

RemoveRowClick == InModal /\ \E id \in Ids(localMaterials) : removeRow(id)

SaveClick == InModal /\ handleSave

CancelClick ==
    /\ InModal
    /\ setIsMaterialModalOpen(FALSE)
    /\ SyncOnOpen(FALSE, state.materials)
    /\ UNCHANGED <<initialMaterials, now>>

(***************************************************************************)
(* Specifications                                                          *)
(***************************************************************************)
\* the App after its first render
Mounted(events) ==
    /\ state = INITIAL_STATE
    /\ isMaterialModalOpen = FALSE
    /\ localMaterials = <<>>
    /\ initialMaterials = TRUE
    /\ memo = Render(INITIAL_STATE, NoMemo)
    /\ now = 0
    /\ budget = events

Init == Mounted(MaxSteps)

MaterialEvents ==
    \/ BatchSizeInput
    \/ MaterialNameInput
    \/ MaterialCostInput
    \/ AddMaterialClick
    \/ RemoveMaterialClick
    \/ DetailedInputClick
    \/ RowTextInput
    \/ RowDetailInput
    \/ AddRowClick
    \/ RemoveRowClick
    \/ SaveClick
    \/ CancelClick
    \/ ClearClick
    \/ ResetClick

\* the material costing: batch size, material rows, the editor, Clear and Reset
SpecMaterials == Init /\ [][MaterialEvents]_vars

Next ==
    \/ DevNameInput
    \/ DevAmountInput
    \/ AddDevCostClick
    \/ RemoveDevCostClick
    \/ AmortizationInput
    \/ BatchSizeInput
    \/ MaterialNameInput
    \/ MaterialCostInput
    \/ AddMaterialClick
    \/ RemoveMaterialClick
    \/ DetailedInputClick
    \/ PriceInput
    \/ FixedExpensesInput
    \/ RoyaltyInput
    \/ DiscountInput
    \/ WasteSlider
    \/ ClearClick
    \/ ResetClick
    \/ RowTextInput
    \/ RowDetailInput
    \/ AddRowClick
    \/ RemoveRowClick
    \/ SaveClick
    \/ CancelClick

\* the whole application: every input and button of the page and the editor
InitEdits == Mounted(MaxEdits)

Spec == InitEdits /\ [][Next]_vars

(***************************************************************************)
(* The cost handler called on a calculated row.  The cost input of such a  *)
(* row is readOnly, so the page never delivers the call; here the handler  *)
(* is called all the same.  A session starts after the editor saved a row  *)
(* with a unit cost into the default snapshot.                             *)
(***************************************************************************)
\* the lists the editor saves after the quantity, the buffer and the unit
\* cost of the first row were typed at batch size 50
SavedCalculatedLists ==
    { Map(INITIAL_STATE.materials,
          LAMBDA item :
              UpdatedRow(UpdatedRow(UpdatedRow(item, Id(1, 0), "qtyPerUnit",
                                               OrZero(ParseFloat(qtyText)),
                                               INITIAL_STATE.batchSize),
                                    Id(1, 0), "bufferUnits",
                                    OrZero(ParseFloat(bufferText)),
                                    INITIAL_STATE.batchSize),
                         Id(1, 0), "unitCost", OrZero(ParseFloat("5")),
                         INITIAL_STATE.batchSize)) :
      qtyText \in QtyTexts, bufferText \in BufferTexts \cup {""} }

InitOverwrite ==
    /\ \E saved \in SavedCalculatedLists :
           /\ state = [INITIAL_STATE EXCEPT !.materials = saved]
           /\ localMaterials = saved
           /\ memo = Render([INITIAL_STATE EXCEPT !.materials = saved], NoMemo)
    /\ isMaterialModalOpen = FALSE
    /\ initialMaterials = FALSE
    /\ now = 0
    /\ budget = MaxOverwriteSteps

\* handleMaterialChange(mat.id, 'cost', ...) on a row whose input is readOnly
DirectCostEdit ==
    /\ OnPage
    /\ \E id \in Ids(state.materials), text \in MaterialCostTexts :
          /\ ReadOnly(ItemOf(state.materials, id))
          /\ handleMaterialChange(id, "cost", OrZero(ParseFloat(text)))

OverwriteEvents ==
    \/ DirectCostEdit
    \/ BatchSizeInput
    \/ MaterialNameInput
    \/ MaterialCostInput
    \/ AddMaterialClick
    \/ RemoveMaterialClick
    \/ DetailedInputClick
    \/ RowTextInput
    \/ RowDetailInput
    \/ AddRowClick
    \/ RemoveRowClick
    \/ SaveClick
    \/ CancelClick

SpecOverwrite == InitOverwrite /\ [][OverwriteEvents]_vars

(***************************************************************************)
(* The LOGIC KERNEL as a function of the state.  A session starts in a     *)
(* state the handlers can produce (every field below is set by an input,   *)
(* a Remove button, Clear or Reset, independently of the others) and the   *)
(* one step is the render that computes the derived values from it.        *)
(***************************************************************************)
KernelStates ==
    [ devCosts : {INITIAL_STATE.devCosts},
      amortizationQty : {OrZero(ParseInt(text)) : text \in {"", "1000"}},
      batchSize : {OrZero(ParseInt(text)) : text \in {"", "2", "50"}},
      wasteCount : {I(0), I(1), I(2)},
      materials : {<<>>, INITIAL_STATE.materials},
      publicPrice : {OrZero(ParseFloat(text)) : text \in PriceTexts},
      fixedMonthlyExpenses : {OrZero(ParseFloat(text)) : text \in {"21", "2500"}},
      designerRoyaltyPercent : {Div(OrZero(ParseFloat(text)), I(100)) : text \in RoyaltyTexts},
      customScenarios : {INITIAL_STATE.customScenarios, ClearedScenarios} ]

\* state.materials is the array of INITIAL_STATE only while no handler has
\* stored another one: the batch-size input, also with the text "50", Clear
\* and the material inputs store a new array, the other inputs keep it
InitKernel ==
    /\ state \in KernelStates
    /\ isMaterialModalOpen = FALSE
    /\ localMaterials = <<>>
    /\ initialMaterials \in IF state.materials = INITIAL_STATE.materials /\ state.batchSize = INITIAL_STATE.batchSize THEN BOOLEAN ELSE {FALSE}
    /\ memo = NoMemo
    /\ now = 0
    /\ budget = 0

\* the body of App, with no caches of an earlier render
Mount ==
    /\ ~Rendered
    /\ memo' = Render(state, NoMemo)
    /\ UNCHANGED <<state, isMaterialModalOpen, localMaterials, initialMaterials, now, budget>>

SpecKernel == InitKernel /\ [][Mount]_vars

(***************************************************************************)
(* Properties of the material costing                                      *)
(***************************************************************************)
CalculatedMode(m) == Gt(m.unitCost, I(0)) \/ Gt(m.qtyPerUnit, I(0))
ManualMode(m) == Eq(m.qtyPerUnit, I(0)) /\ Eq(m.unitCost, I(0))
FormulaCost(m, batchSize) ==
    Mul(Add(Mul(m.qtyPerUnit, batchSize), m.bufferUnits), m.unitCost)

\* C1: in every state reached by edits of the page and of the material
\* editor, every material item with unitCost > 0 or qtyPerUnit > 0 has
\* cost = (qtyPerUnit * state.batchSize + bufferUnits) * unitCost.
C1_CalculatedCost ==
    \A i \in DOMAIN state.materials :
        LET m == state.materials[i]
        IN  CalculatedMode(m) => Eq(m.cost, FormulaCost(m, state.batchSize))

\* a saved item with a quantity, a buffer and a unit cost: (2 * 50 + 5) * 5
C1_Witness ==
    /\ ~isMaterialModalOpen
    /\ \E i \in DOMAIN state.materials :
          LET m == state.materials[i]
          IN  /\ Gt(m.qtyPerUnit, I(0)) /\ Gt(m.bufferUnits, I(0)) /\ Gt(m.unitCost, I(0))
              /\ Eq(m.cost, I(525))

\* C2: after updateBatchSize(n), state.batchSize = n and every item in
\* calculated mode has cost = (qtyPerUnit * n + bufferUnits) * unitCost,
\* whatever its cost was before.
C2_BatchRecomputes ==
    [][\A text \in BatchTexts :
          LET n == OrZero(ParseInt(text))
          IN  (OnPage /\ updateBatchSize(n)) =>
                  /\ state'.batchSize = n
                  /\ \A i \in DOMAIN state'.materials :
                        LET m == state'.materials[i]
                        IN  CalculatedMode(m) => Eq(m.cost, FormulaCost(m, n))]_vars

\* the batch size went from 50 to 2 after an item with unitCost 5 and
\* qtyPerUnit 2 was saved: the editor's copy has the cost 500 it saved, the
\* state has (2 * 2 + 0) * 5
C2_Witness ==
    /\ state.batchSize = I(2)
    /\ \E i \in DOMAIN state.materials :
          LET m == state.materials[i]
          IN  /\ m.qtyPerUnit = I(2) /\ m.unitCost = I(5) /\ m.cost = I(20)
              /\ \E j \in DOMAIN localMaterials :
                    localMaterials[j].id = m.id /\ localMaterials[j].cost = I(500)

\* C3: a batch-size change keeps the number of material items, their order,
\* their ids, every field other than cost of every item, and the cost of
\* every item in manual mode, also of one with bufferUnits > 0.
C3_BatchFrame ==
    [][BatchSizeInput =>
          /\ Len(state'.materials) = Len(state.materials)
          /\ \A i \in DOMAIN state.materials :
                LET a == state.materials[i]
                    b == state'.materials[i]
                IN  /\ [b EXCEPT !.cost = a.cost] = a
                    /\ ManualMode(a) => b.cost = a.cost]_vars

\* the batch size is no longer 50 and a manual item with a buffer has the
\* cost typed for it
C3_Witness ==
    /\ state.batchSize = I(2)
    /\ \E i \in DOMAIN state.materials :
          LET m == state.materials[i]
          IN  ManualMode(m) /\ Gt(m.bufferUnits, I(0)) /\ m.cost = I(7)

\* C4: the manual-mode policy holds on every path that recomputes costs: a
\* batch-size change, a detail-field edit in the material editor and Save
\* leave the cost of an item that is and stays in manual mode as it was.
C4_ManualModeKept ==
    [][/\ BatchSizeInput =>
              \A i \in DOMAIN state.materials :
                  ManualMode(state.materials[i]) =>
                      state'.materials[i].cost = state.materials[i].cost
       /\ RowDetailInput =>
              \A i \in DOMAIN localMaterials :
                  (ManualMode(localMaterials[i]) /\ ManualMode(localMaterials'[i])) =>
                      Eq(localMaterials'[i].cost, localMaterials[i].cost)
       /\ SaveClick =>
              \A i \in DOMAIN localMaterials :
                  ManualMode(localMaterials[i]) =>
                      state'.materials[i].cost = localMaterials[i].cost]_vars

(***************************************************************************)
(* Properties of the LOGIC KERNEL                                          *)
(***************************************************************************)
IsInteger(x) == x.k = "int"
IsNumber(x) == x.k = "int" \/ x.k = "fin"
Magnitude(x) == IF Lt(x, I(0)) THEN Sub(I(0), x) ELSE x
\* Number.EPSILON, 2^-52
Epsilon == Div(Div(I(1), I(2^26)), I(2^26))

\* C5: in every scenario result breakEvenUnits is the sentinel Infinity
\* exactly when grossMargin <= 0, which is exactly when isProfitable is
\* false; with grossMargin <= 0 it is never a finite number or NaN.
C5_BreakEvenSentinel ==
    Rendered =>
        \A i \in DOMAIN DEFAULT_SCENARIOS :
            LET r == scenario(i)
            IN  /\ (r.breakEvenUnits = Infinity) <=> Le(r.grossMargin, I(0))
                /\ Le(r.grossMargin, I(0)) <=> ~r.isProfitable

\* a render with a scenario that loses money on every unit and one whose
\* margin is exactly zero, both with the sentinel
C5_Witness ==
    /\ Rendered
    /\ \E i \in DOMAIN DEFAULT_SCENARIOS :
          LET r == scenario(i)
          IN  Lt(r.grossMargin, I(0)) /\ r.breakEvenUnits = Infinity /\ ~r.isProfitable
    /\ Gt(state.fixedMonthlyExpenses, I(0))
    /\ Gt(COGS, I(0))

\* C6: for each static scenario S, with d the discount of the entry of
\* customScenarios with S's id if there is one, else S.discountPercent, and
\* c = S.commissionPercent: discountPercent = d, netRevenue = publicPrice *
\* (1 - d), grossMargin = netRevenue - COGS - netRevenue * royalty -
\* netRevenue * c, and profit = grossMargin.
C6_ScenarioFormulas ==
    Rendered =>
        \A i \in DOMAIN DEFAULT_SCENARIOS :
            LET S  == DEFAULT_SCENARIOS[i]
                r  == scenario(i)
                ov == {j \in DOMAIN state.customScenarios : state.customScenarios[j].id = S.id}
                d  == IF ov # {}
                      THEN state.customScenarios[CHOOSE j \in ov : \A k \in ov : j <= k]
                               .discountPercent
                      ELSE S.discountPercent
                c  == S.commissionPercent
                nr == Mul(state.publicPrice, Sub(I(1), d))
            IN  /\ Eq(r.discountPercent, d)
                /\ Eq(r.commissionPercent, c)
                /\ Eq(r.netRevenue, nr)
                /\ Eq(r.grossMargin,
                      Sub(Sub(Sub(nr, COGS), Mul(nr, state.designerRoyaltyPercent)),
                          Mul(nr, c)))
                /\ Eq(r.profit, r.grossMargin)

\* a render in which the Sales Agent scenario has an override that differs
\* from its static discount, a commission, a royalty and a cost of goods
C6_Witness ==
    /\ Rendered
    /\ \E i \in DOMAIN DEFAULT_SCENARIOS :
          /\ ~Eq(scenario(i).discountPercent, DEFAULT_SCENARIOS[i].discountPercent)
          /\ Gt(DEFAULT_SCENARIOS[i].commissionPercent, I(0))
    /\ Gt(state.publicPrice, I(0))
    /\ Gt(state.designerRoyaltyPercent, I(0))
    /\ Gt(COGS, I(0))

\* C7: when grossMargin > 0, breakEvenUnits is an integer n with
\* n * grossMargin >= fixedMonthlyExpenses and
\* (n - 1) * grossMargin < fixedMonthlyExpenses.
C7_BreakEvenCeiling ==
    Rendered =>
        \A i \in DOMAIN DEFAULT_SCENARIOS :
            LET r == scenario(i)
                n == r.breakEvenUnits
            IN  Gt(r.grossMargin, I(0)) =>
                    /\ IsInteger(n)
                    /\ Ge(Mul(n, r.grossMargin), state.fixedMonthlyExpenses)
                    /\ Lt(Mul(Sub(n, I(1)), r.grossMargin), state.fixedMonthlyExpenses)

\* C8: degenerate inputs give zero contributions and numbers: with
\* amortizationQty = 0, amortPerUnit = 0; with batchSize - wasteCount <= 0,
\* effectiveUnits = 0 and materialCostPerUnit = 0, so COGS = amortPerUnit.
C8_DegenerateInputs ==
    Rendered =>
        /\ Eq(state.amortizationQty, I(0)) =>
               Eq(amortPerUnit, I(0))
        /\ Le(Sub(state.batchSize, state.wasteCount), I(0)) =>
               /\ Eq(effectiveUnits, I(0))
               /\ Eq(materialCostPerUnit, I(0))
               /\ Eq(COGS, amortPerUnit)
        /\ IsNumber(amortPerUnit) /\ IsNumber(materialCostPerUnit) /\ IsNumber(COGS)

\* a render with development and material costs to spread, no units to
\* amortise over, and more waste than batch
C8_Witness ==
    /\ Rendered
    /\ Eq(state.amortizationQty, I(0))
    /\ Gt(state.batchSize, I(0))
    /\ Ge(state.wasteCount, state.batchSize)
    /\ Gt(totalDevCost, I(0))
    /\ Gt(totalBatchMaterialCost, I(0))

YieldCase ==
    /\ Rendered
    /\ Gt(state.batchSize, I(0))
    /\ Ge(state.wasteCount, I(0))
    /\ Lt(state.wasteCount, state.batchSize)

\* C9 as stated: for b > 0 and 0 <= w < b, effectiveUnits = b - w and
\* materialCostPerUnit * effectiveUnits = totalBatchMaterialCost.
C9_ExactYield ==
    YieldCase =>
        /\ Eq(effectiveUnits, Sub(state.batchSize, state.wasteCount))
        /\ Eq(Mul(materialCostPerUnit, effectiveUnits), totalBatchMaterialCost)

\* C9 amended: for b > 0 and 0 <= w < b, effectiveUnits = b - w and
\* materialCostPerUnit * effectiveUnits differs from totalBatchMaterialCost
\* by at most totalBatchMaterialCost * 2^-52.
C9_YieldWithinTolerance ==
    YieldCase =>
        /\ Eq(effectiveUnits, Sub(state.batchSize, state.wasteCount))
        /\ Le(Magnitude(Sub(Mul(materialCostPerUnit, effectiveUnits),
                            totalBatchMaterialCost)),
              Mul(Magnitude(totalBatchMaterialCost), Epsilon))

\* a render where the product is not the total: 450 over 49 units
C9_Witness ==
    /\ YieldCase
    /\ Gt(state.wasteCount, I(0))
    /\ ~Eq(Mul(materialCostPerUnit, effectiveUnits), totalBatchMaterialCost)

(***************************************************************************)
(* Properties of the memoisation                                           *)
(***************************************************************************)
\* C10: in every reachable state totalDevCost, amortPerUnit,
\* totalBatchMaterialCost, materialCostPerUnit, COGS and the scenario
\* results of the last render equal what a computation from the current
\* state with no caches gives, with COGS = materialCostPerUnit +
\* amortPerUnit: no cached value is stale.
C10_NoStaleMemo ==
    LET dev   == TotalDevCostOf(state.devCosts)
        amort == AmortPerUnitOf(dev, state.amortizationQty)
        total == TotalBatchMaterialCostOf(state.materials)
        mcpu  == MaterialCostPerUnitOf(total,
                                       EffectiveUnitsOf(state.batchSize, state.wasteCount))
        cogs  == Add(mcpu, amort)
        env   == ScenariosEnv(state, cogs)
    IN  /\ totalDevCost = dev
        /\ amortPerUnit = amort
        /\ totalBatchMaterialCost = total
        /\ materialCostPerUnit = mcpu
        /\ COGS = cogs
        /\ memo.scenarios.env = env \/ scenarios = ScenariosOf(env)

\* two edits after the first render: the cost of goods and the price are
\* not those the caches were filled with
C10_Witness ==
    /\ budget = 0
    /\ ~Eq(COGS, CogsOf(MaterialCostPerUnitOf(I(450), I(48)), Dec(97, 10)))
    /\ ~Eq(state.publicPrice, I(85))
    /\ memo.scenarios.env.publicPrice = state.publicPrice

(***************************************************************************)
(* Properties of the scenario overrides, Clear and Reset                   *)
(***************************************************************************)
StaticIds == {DEFAULT_SCENARIOS[i].id : i \in DOMAIN DEFAULT_SCENARIOS}
OverrideOf(st, id) ==
    st.customScenarios[CHOOSE j \in DOMAIN st.customScenarios : st.customScenarios[j].id = id]

\* C11: handleScenarioDiscountChange(id, text) stores 0 as the override of id
\* when text is not a number (also for a scenario whose static discount is
\* not 0) and v / 100 when text parses to v; the other overrides and the
\* order of the overrides are unchanged.
C11_DiscountOverride ==
    [][\A i \in DOMAIN DEFAULT_SCENARIOS, text \in DiscountTexts :
          LET id == DEFAULT_SCENARIOS[i].id
              v  == ParseFloat(text)
          IN  (OnPage /\ handleScenarioDiscountChange(id, text)) =>
                  /\ Len(state'.customScenarios) = Len(state.customScenarios)
                  /\ \A j \in DOMAIN state.customScenarios :
                        LET a == state.customScenarios[j]
                            b == state'.customScenarios[j]
                        IN  /\ b.id = a.id
                            /\ a.id = id =>
                                   b.discountPercent =
                                       IF v.k = "nan" THEN I(0) ELSE Div(v, I(100))
                            /\ a.id # id => b = a]_vars

\* the override of Retail Store, static discount 0.50, is 0 after a text
\* that is not a number, and that of Distributor is 35 / 100 after "35"
C11_Witness ==
    /\ OverrideOf(state, "retail").discountPercent = I(0)
    /\ OverrideOf(state, "distributor").discountPercent = Dec(35, 100)
    /\ OverrideOf(state, "agent").discountPercent = Dec(50, 100)
InUnitInterval(x) == Ge(x, I(0)) /\ Le(x, I(1))

\* C12: in every state each discountPercent of customScenarios, the
\* discountPercent and commissionPercent of each scenario result and
\* designerRoyaltyPercent are fractions in [0, 1], whatever percentages
\* were typed.
C12_FractionsInUnitInterval ==
    /\ \A j \in DOMAIN state.customScenarios :
           InUnitInterval(state.customScenarios[j].discountPercent)
    /\ InUnitInterval(state.designerRoyaltyPercent)
    /\ Rendered =>
           \A i \in DOMAIN DEFAULT_SCENARIOS :
               /\ InUnitInterval(scenario(i).discountPercent)
               /\ InUnitInterval(scenario(i).commissionPercent)
\* C13: in every state (after discount edits, Clear and Reset) customScenarios
\* holds exactly one entry for each static scenario id and no entry with
\* another id; an edit for an id that no static scenario has changes nothing.
C13_OneOverridePerScenario ==
    /\ \A id \in StaticIds :
           Cardinality({j \in DOMAIN state.customScenarios :
                           state.customScenarios[j].id = id}) = 1
    /\ \A j \in DOMAIN state.customScenarios : state.customScenarios[j].id \in StaticIds
    /\ \A text \in DiscountTexts :
           NewScenariosOf(state.customScenarios, "wholesale", text) = state.customScenarios

\* Clear, then a discount typed for Direct Sale: its override is 35 / 100
\* and the others are 0
C13_Witness ==
    /\ OverrideOf(state, "direct").discountPercent = Dec(35, 100)
    /\ OverrideOf(state, "retail").discountPercent = I(0)
    /\ OverrideOf(state, "agent").discountPercent = I(0)
IdsInOrder(seq) == [i \in DOMAIN seq |-> seq[i].id]
Reversed(seq) == [i \in DOMAIN seq |-> seq[Len(seq) + 1 - i]]

\* C14: in every state the scenario results are one per static scenario, in
\* the order direct, card, specifier, retail, distributor, agent; the
\* discount each result is computed from is the same when customScenarios
\* is in the opposite order.
C14_DeclarationOrder ==
    Rendered =>
        /\ IdsInOrder(scenarios) =
               <<"direct", "card", "specifier", "retail", "distributor", "agent">>
        /\ \A i \in DOMAIN DEFAULT_SCENARIOS :
               CurrentDiscountOf(DEFAULT_SCENARIOS[i], Reversed(state.customScenarios)) =
                   CurrentDiscountOf(DEFAULT_SCENARIOS[i], state.customScenarios)

\* the overrides of the last and of the first scenario were edited
C14_Witness ==
    /\ Rendered
    /\ OverrideOf(state, "agent").discountPercent = Dec(35, 100)
    /\ OverrideOf(state, "direct").discountPercent = Dec(35, 100)
    /\ scenarios[1].id = "direct"
    /\ scenarios[6].id = "agent"
\* C15: in every scenario result roi = (profit / COGS) * 100 when COGS > 0
\* and roi = 0 when COGS is zero; roi is a finite number, never Infinity
\* and never NaN.
C15_RoiGuard ==
    Rendered =>
        \A i \in DOMAIN DEFAULT_SCENARIOS :
            LET r == scenario(i)
            IN  /\ Gt(COGS, I(0)) => Eq(r.roi, Mul(Div(r.profit, COGS), I(100)))
                /\ Eq(COGS, I(0)) => Eq(r.roi, I(0))
                /\ IsNumber(r.roi)

\* a render with no cost of goods and a scenario that earns money: roi 0
C15_Witness ==
    /\ Rendered
    /\ Eq(COGS, I(0))
    /\ \E i \in DOMAIN DEFAULT_SCENARIOS :
          Gt(scenario(i).profit, I(0)) /\ scenario(i).roi = I(0)

\* the state the Clear button is said to leave: no item, every number zero
ZeroedState ==
    [ devCosts |-> <<>>, amortizationQty |-> I(0), batchSize |-> I(0),
      wasteCount |-> I(0), materials |-> <<>>, publicPrice |-> I(0),
      fixedMonthlyExpenses |-> I(0), designerRoyaltyPercent |-> I(0),
      customScenarios |->
          [i \in 1..6 |->
              [id |-> <<"direct", "card", "specifier", "retail",
                        "distributor", "agent">>[i],
               discountPercent |-> I(0)]] ]

\* the derived values of the page in the zeroed state
ZeroedDerived ==
    /\ Eq(COGS, I(0))
    /\ \A i \in DOMAIN DEFAULT_SCENARIOS :
           /\ Eq(scenario(i).netRevenue, I(0))
           /\ Eq(scenario(i).profit, I(0))
           /\ ~scenario(i).isProfitable
           /\ Eq(scenario(i).roi, I(0))
           /\ scenario(i).breakEvenUnits = Infinity

\* C16: from any state, Clear gives the state with no development items and
\* no materials, amortizationQty, batchSize, wasteCount, publicPrice,
\* fixedMonthlyExpenses and designerRoyaltyPercent 0 and one override of 0
\* per static scenario; in it COGS = 0 and every scenario has netRevenue 0,
\* profit 0, isProfitable false, roi 0 and breakEvenUnits Infinity.
C16_Clear ==
    /\ [][ClearClick => state' = ZeroedState]_vars
    /\ [](state = ZeroedState => ZeroedDerived)

\* the cleared state after an earlier event of the session
C16_Witness ==
    /\ budget = 0
    /\ state.devCosts = <<>>
    /\ state.materials = <<>>
    /\ state.publicPrice = I(0)
    /\ \A j \in DOMAIN state.customScenarios :
           state.customScenarios[j].discountPercent = I(0)
    /\ Eq(COGS, I(0))
    /\ scenario(4).breakEvenUnits = Infinity

\* the amounts of the rows of a list, in order
AmountsOf(items, field) == [i \in DOMAIN items |-> items[i][field]]

\* C17: from any state, Reset gives the default snapshot in every field:
\* three development items, three materials in manual mode with costs 250,
\* 50 and 150, batch size 50, waste 2, and every override equal to the
\* default discount of its scenario.  The snapshot is the one the page
\* started with whatever was edited before, and a Reset of the default
\* snapshot leaves it as it is.
C17_Reset ==
    [][ResetClick =>
          /\ state' = INITIAL_STATE
          /\ Len(state'.devCosts) = 3
          /\ AmountsOf(state'.materials, "cost") = <<I(250), I(50), I(150)>>
          /\ \A i \in DOMAIN state'.materials :
                 /\ state'.materials[i].qtyPerUnit = I(0)
                 /\ state'.materials[i].unitCost = I(0)
          /\ state'.batchSize = I(50)
          /\ state'.wasteCount = I(2)
          /\ AmountsOf(state'.customScenarios, "discountPercent")
                 = AmountsOf(DEFAULT_SCENARIOS, "discountPercent")
          /\ IdsInOrder(state'.customScenarios) = IdsInOrder(DEFAULT_SCENARIOS)
          /\ (state = INITIAL_STATE => state' = state)
    ]_vars

\* the default snapshot at the end of a session in which a row was added
C17_Witness ==
    /\ budget = 0
    /\ now = 1
    /\ state = INITIAL_STATE
    /\ Rendered

\* C18: in the default snapshot amortPerUnit is 9.7, effectiveUnits 48,
\* materialCostPerUnit 9.375, COGS 19.075, and the retail scenario has
\* netRevenue 42.5, grossMargin and profit 21.3, isProfitable true and
\* breakEvenUnits 118.
C18_DefaultFigures ==
    (Rendered /\ state = INITIAL_STATE) =>
        /\ amortPerUnit = Dec(97, 10)
        /\ effectiveUnits = I(48)
        /\ materialCostPerUnit = Dec(9375, 1000)
        /\ COGS = Dec(19075, 1000)
        /\ scenario(4).id = "retail"
        /\ scenario(4).netRevenue = Dec(425, 10)
        /\ scenario(4).grossMargin = Dec(213, 10)
        /\ scenario(4).profit = Dec(213, 10)
        /\ scenario(4).isProfitable
        /\ scenario(4).breakEvenUnits = I(118)

\* the default snapshot on the page once both events of the session are spent
C18_Witness ==
    /\ budget = 0
    /\ ~isMaterialModalOpen
    /\ state = INITIAL_STATE
    /\ Eq(scenario(4).profit, Dec(213, 10))

\* the batch sizes the recalculation is tried with: what the Batch Size
\* input can produce, the default, and a size that is not a whole number
RecalculationSizes ==
    {OrZero(ParseInt(text)) : text \in BatchTexts} \cup {I(50), Dec(25, 10)}

\* C19: for the material list of every state and every batch size n,
\* recalculateMaterials applied twice with n gives the same list as
\* applied once.
C19_RecalculateIdempotent ==
    \A n \in RecalculationSizes :
        recalculateMaterials(recalculateMaterials(state.materials, n), n)
            = recalculateMaterials(state.materials, n)

\* a list with a calculated row whose cost the recalculation changes, next
\* to a manual row it leaves alone
C19_Witness ==
    /\ \E i \in DOMAIN state.materials :
           /\ Gt(state.materials[i].unitCost, I(0))
           /\ Gt(state.materials[i].qtyPerUnit, I(0))
           /\ recalculateMaterials(state.materials, Dec(25, 10))[i].cost
                  # state.materials[i].cost
    /\ \E i \in DOMAIN state.materials :
           /\ state.materials[i].unitCost = I(0)
           /\ state.materials[i].qtyPerUnit = I(0)
           /\ Gt(state.materials[i].cost, I(0))

\* what can be typed into each field of a row of the editor
RowTextsOf(field) ==
    CASE field = "qtyPerUnit"  -> QtyTexts
      [] field = "bufferUnits" -> BufferTexts
      [] field = "unitCost"    -> UnitCostTexts
      [] field = "name"        -> MaterialNameTexts
      [] field = "notes"       -> NotesTexts

\* C20: in the editor, an edit of qtyPerUnit, bufferUnits or unitCost of a
\* row stores the value and sets the row's cost to
\* (qtyPerUnit * batchSize + bufferUnits) * unitCost, taken with the new
\* value of the edited field and the current values of the other two; an
\* edit of name or notes stores the text and leaves cost, qtyPerUnit,
\* bufferUnits and unitCost as they were; every other row is unchanged.
C20_UpdateRow ==
    [][InModal =>
          /\ \A field \in DetailFields : \A text \in RowTextsOf(field) :
                 LET value == OrZero(ParseFloat(text))
                 IN  \A id \in Ids(localMaterials) :
                         updateRow(id, field, value) =>
                             /\ Len(localMaterials') = Len(localMaterials)
                             /\ \A j \in DOMAIN localMaterials :
                                    LET a == localMaterials[j]
                                        b == localMaterials'[j]
                                        qty   == IF field = "qtyPerUnit" THEN value
                                                 ELSE a.qtyPerUnit
                                        buff  == IF field = "bufferUnits" THEN value
                                                 ELSE a.bufferUnits
                                        uCost == IF field = "unitCost" THEN value
                                                 ELSE a.unitCost
                                    IN  IF a.id = id
                                        THEN b = [a EXCEPT
                                                     !.qtyPerUnit = qty,
                                                     !.bufferUnits = buff,
                                                     !.unitCost = uCost,
                                                     !.cost = Mul(Add(Mul(qty, state.batchSize),
                                                                      buff),
                                                                  uCost)]
                                        ELSE b = a
          /\ \A field \in {"name", "notes"} : \A text \in RowTextsOf(field) :
                 \A id \in Ids(localMaterials) :
                     updateRow(id, field, text) =>
                         /\ Len(localMaterials') = Len(localMaterials)
                         /\ \A j \in DOMAIN localMaterials :
                                LET a == localMaterials[j]
                                    b == localMaterials'[j]
                                IN  IF a.id = id
                                    THEN /\ b[field] = text
                                         /\ b.cost = a.cost
                                         /\ b.qtyPerUnit = a.qtyPerUnit
                                         /\ b.bufferUnits = a.bufferUnits
                                         /\ b.unitCost = a.unitCost
                                         /\ b.id = a.id
                                         /\ \A other \in {"name", "notes"} \ {field} :
                                                b[other] = a[other]
                                    ELSE b = a]_vars

\* the editor with a row of quantity 2 and unit cost 5 at batch size 50,
\* its cost (2 * 50 + 0) * 5, next to a renamed row that kept its cost
C20_Witness ==
    /\ isMaterialModalOpen
    /\ state.batchSize = I(50)
    /\ \E j \in DOMAIN localMaterials :
           /\ localMaterials[j].qtyPerUnit = I(2)
           /\ localMaterials[j].unitCost = I(5)
           /\ localMaterials[j].cost = I(500)
    /\ \E j \in DOMAIN localMaterials :
           /\ localMaterials[j].name = "Steel"
           /\ localMaterials[j].cost = I(50)

(***************************************************************************)
(* Properties of a direct cost edit of a calculated row and of the editor  *)
(***************************************************************************)
\* a calculated row whose cost is not the one its details give
Overwritten(m, batchSize) == CalculatedMode(m) /\ m.cost # FormulaCost(m, batchSize)

\* C21: after a direct cost edit of a calculated row with any value, the
\* next batch-size change to any size n sets the cost of every row that is
\* in calculated mode, the edited one included, to
\* (qtyPerUnit * n + bufferUnits) * unitCost, whatever cost it had.
C21_OverwriteSuperseded ==
    [][\A text \in BatchTexts :
          LET n == OrZero(ParseInt(text))
          IN  (OnPage /\ updateBatchSize(n)) =>
                  /\ Len(state'.materials) = Len(state.materials)
                  /\ \A i \in DOMAIN state.materials :
                         LET m == state.materials[i]
                         IN  CalculatedMode(m) =>
                                 /\ state'.materials[i].cost = FormulaCost(m, n)
                                 /\ state'.materials[i] = [m EXCEPT !.cost = FormulaCost(m, n)]
    ]_vars

\* the page with a calculated row whose cost was overwritten with 7 and an
\* event left for the batch-size change
C21_Witness ==
    /\ ~isMaterialModalOpen
    /\ budget > 0
    /\ \E i \in DOMAIN state.materials :
           /\ Overwritten(state.materials[i], state.batchSize)
           /\ state.materials[i].cost = I(7)

(***************************************************************************)
(* Properties of the state as a whole and of the efficiency card           *)
(***************************************************************************)
\* the step changes no field of the state outside fields
OnlyChanges(fields) == \A f \in (DOMAIN state) \ fields : state'[f] = state[f]

\* C22: an edit of a development item, an added or a removed one changes
\* only devCosts; a discount edit only customScenarios; a waste edit only
\* wasteCount; an edit of the price, the fixed expenses, the royalty or the
\* amortization quantity only that number; a batch-size change only
\* batchSize and materials, and leaves wasteCount as it was.
C22_EditFrame ==
    [][/\ (DevNameInput \/ DevAmountInput \/ AddDevCostClick \/ RemoveDevCostClick)
            => OnlyChanges({"devCosts"})
       /\ DiscountInput => OnlyChanges({"customScenarios"})
       /\ WasteSlider => OnlyChanges({"wasteCount"})
       /\ PriceInput => OnlyChanges({"publicPrice"})
       /\ FixedExpensesInput => OnlyChanges({"fixedMonthlyExpenses"})
       /\ RoyaltyInput => OnlyChanges({"designerRoyaltyPercent"})
       /\ AmortizationInput => OnlyChanges({"amortizationQty"})
       /\ BatchSizeInput =>
              /\ OnlyChanges({"batchSize", "materials"})
              /\ state'.wasteCount = state.wasteCount
    ]_vars

\* the batch size was set to 2 while the waste was 2, then the price was
\* edited: the waste is still 2 and everything else is as in the default
\* snapshot
C22_Witness ==
    /\ budget = 0
    /\ state = [INITIAL_STATE EXCEPT !.batchSize = I(2), !.publicPrice = Dec(7, 10)]

\* C23 as claimed: in every state with batchSize >= 1 the waste is at least
\* 0 and below the batch size, in whatever order the waste and the batch
\* size were edited.
C23_WasteBelowBatch ==
    Ge(state.batchSize, I(1)) =>
        Ge(state.wasteCount, I(0)) /\ Lt(state.wasteCount, state.batchSize)

\* C23: the waste is never negative, and a waste edit through the slider
\* leaves it below the batch size when the batch size is at least 1 and at
\* 0 otherwise; a batch-size change is not held to that bound.
C23_SliderBounded ==
    /\ [](Ge(state.wasteCount, I(0)))
    /\ [][WasteSlider =>
              /\ Ge(state.batchSize, I(1)) => Lt(state'.wasteCount, state.batchSize)
              /\ Lt(state.batchSize, I(1)) => state'.wasteCount = I(0)]_vars

\* the slider moved to 1 after the batch size was set to 2
C23_Witness ==
    /\ budget = 0
    /\ state.batchSize = I(2)
    /\ state.wasteCount = I(1)

\* C24: a Save of the editor leaves every calculated row, also one whose
\* cost was overwritten directly before the editor was opened, with
\* cost = (qtyPerUnit * batchSize + bufferUnits) * unitCost.
C24_SaveReverts ==
    [][SaveClick =>
          \A i \in DOMAIN state'.materials :
              LET m == state'.materials[i]
              IN  CalculatedMode(m) => m.cost = FormulaCost(m, state'.batchSize)]_vars

\* C25: when the editor opens, its rows equal state.materials; an edit, an
\* added or a removed row in the editor leaves the state as it is; Cancel
\* leaves the state as it is, so state.materials is what it was when the
\* editor opened; Save sets state.materials to the rows of the editor and
\* changes no other field of the state.
C25_EditorCopy ==
    [][/\ (~isMaterialModalOpen /\ DetailedInputClick)
              => (localMaterials' = state.materials /\ state' = state)
       /\ (RowTextInput \/ RowDetailInput \/ AddRowClick \/ RemoveRowClick)
              => state' = state
       /\ CancelClick => state' = state
       /\ SaveClick =>
              /\ state'.materials = localMaterials
              /\ \A f \in (DOMAIN state) \ {"materials"} : state'[f] = state[f]
    ]_vars

\* the page after a Save of an editor in which a note was written: the
\* state holds the rows of the editor
C25_Witness ==
    /\ ~isMaterialModalOpen
    /\ state.materials = localMaterials
    /\ \E i \in DOMAIN state.materials : state.materials[i].notes = "specs"
    /\ state.batchSize = INITIAL_STATE.batchSize

\* C26: in every rendered state the card's effectiveUnits is
\* max(0, batchSize - wasteCount) and not negative, its yield rate lies in
\* [0, 1], and its currentTotalUnitCost is COGS, also when the waste is not
\* below the batch size.
C26_CardAgrees ==
    Rendered =>
        /\ Eq(card.effectiveUnits, effectiveUnits)
        /\ Ge(card.effectiveUnits, I(0))
        /\ Ge(card.yieldRate, I(0)) /\ Le(card.yieldRate, I(1))
        /\ Eq(card.currentTotalUnitCost, COGS)
====
